---------------------------- MODULE Spec2Model ----------------------------
(***************************************************************************)
(* A model of dask_awkward/lib/optimize.py: the dispatcher `optimize`, the  *)
(* column projection pass `optimize_columns` and the layer-chain fusion     *)
(* pass `rewrite_layer_chains`, over a heap of layer objects so that        *)
(* aliasing (shallow copies, shared io_deps dictionaries) is visible.       *)
(***************************************************************************)
EXTENDS Integers, Sequences, FiniteSets, TLC

VARIABLES
    heap,        \* Seq of layer objects; a layer's identity is its index
    dicts,       \* Seq of io_deps dictionaries; a dict's identity is its index
    graph,       \* the HighLevelGraph the caller holds: [layers, deps]
    pc,          \* "idle" | "columns" | "chains" | "discover" | "rewrite"
    enabled,     \* optimize: awkward.optimization.enabled at the call
    which,       \* optimize: awkward.optimization.which at the call
    dsk,         \* the graph the running pass was given
    snap,        \* heap and dicts as they were when the running pass started
    all_layers,  \* rewrite_layer_chains: the work set
    chains,      \* rewrite_layer_chains: the chains found so far
    layers,      \* rewrite_layer_chains: the new layer mapping being built
    deps,        \* rewrite_layer_chains: the copied dependency map
    chain_i,     \* rewrite_layer_chains: position of the rewrite loop
    calls,       \* number of optimize calls started
    hist         \* one record per finished pass, oldest first

vars == <<heap, dicts, graph, pc, enabled, which, dsk, snap, all_layers,
          chains, layers, deps, chain_i, calls, hist>>

--------------------------------------------------------------------------
(* Bounds *)

\* the largest number of partitions of a layer of an input graph
MaxParts == 2
\* the number of calls of optimize in a behaviour of Spec
MaxCalls == 1

--------------------------------------------------------------------------
(* Generic helpers *)

Max(a, b) == IF a >= b THEN a ELSE b

Range(s) == {s[i] : i \in DOMAIN s}

Last(s) == s[Len(s)]

Front(s) == SubSeq(s, 1, Len(s) - 1)

TheOne(S) == CHOOSE x \in S : TRUE

EmptyFn == [x \in {} |-> 0]

\* f with key k bound to v (a Python dict assignment d[k] = v)
Put(f, k, v) == [x \in DOMAIN f \cup {k} |-> IF x = k THEN v ELSE f[x]]

\* f without the keys in K (dict.pop for each)
Drop(f, K) == [x \in DOMAIN f \ K |-> f[x]]

--------------------------------------------------------------------------
(* Task arguments.  A task (func, *args) is [func, fid, cols, args]: func  *)
(* is the kind of callable, fid tells two callables of one kind apart, and *)
(* cols is the column set an io function reads.  An argument is a          *)
(* blockwise token "__dask_blockwise__<n>", another string, or a list or   *)
(* tuple of arguments.                                                      *)

Tok(n) == [t |-> "tok", n |-> n, v |-> "", items |-> <<>>]
Str(v) == [t |-> "str", n |-> 0, v |-> v, items |-> <<>>]
Lst(items) == [t |-> "list", n |-> 0, v |-> "", items |-> items]
Tup(items) == [t |-> "tuple", n |-> 0, v |-> "", items |-> items]

Slot(name, part) == [name |-> name, part |-> part]

--------------------------------------------------------------------------
(* Names *)

NameSeq == <<"a", "b", "c", "d">>
IoSeq == <<"io_a", "io_b", "io_c", "io_d">>
LitSeq == <<"lit_a", "lit_b", "lit_c", "lit_d">>

\* the layers of the generated graphs
FamilyNames == <<"a", "b", "c">>

Idx(n) == CHOOSE i \in DOMAIN NameSeq : NameSeq[i] = n

\* the names of D in NameSeq order, from position i on
RECURSIVE DepSeq(_, _)
DepSeq(D, i) ==
    IF i > Len(NameSeq) THEN <<>>
    ELSE (IF NameSeq[i] \in D THEN <<NameSeq[i]>> ELSE <<>>) \o DepSeq(D, i + 1)

\* the columns an input exposes
AllColumns == {"foo", "bar", "baz.x", "baz.y"}

--------------------------------------------------------------------------
(* Layers and graphs *)

IsInput(l) == l.kind = "input"

\* AwkwardInputLayer is itself read as a blockwise layer: the rewrite reads
\* layer0.inputs, an attribute only an input layer carries.
IsBlockwise(l) == l.kind \in {"input", "blockwise"}

\* len(layer): the number of output partitions.  A blockwise layer with no
\* partitioned input takes its partition count from new_axes, kept in npart.
LayerLen(l) ==
    IF IsBlockwise(l)
    THEN IF l.numblocks = <<>> THEN (IF l.npart > 0 THEN l.npart ELSE 1)
         ELSE CHOOSE m \in {l.numblocks[i].nb : i \in DOMAIN l.numblocks} :
                  \A i \in DOMAIN l.numblocks : l.numblocks[i].nb <= m
    ELSE l.npart

Dependents(g) ==
    [n \in DOMAIN g.deps |-> {m \in DOMAIN g.deps : n \in g.deps[m]}]

--------------------------------------------------------------------------
(* rewrite_layer_chains: chain discovery *)

\* a variant that links layers of different partition counts
ForwardLink_AnyLength(h, g, lay, children) ==
    /\ Cardinality(children) = 1
    /\ g.deps[TheOne(children)] = {lay}
    /\ IsBlockwise(h[g.layers[TheOne(children)]])

\* the condition of the forward walk: lay -> child can be linked
ForwardLink(h, g, lay, children) ==
    /\ Cardinality(children) = 1
    /\ g.deps[TheOne(children)] = {lay}
    /\ IsBlockwise(h[g.layers[TheOne(children)]])
    /\ LayerLen(h[g.layers[lay]]) = LayerLen(h[g.layers[TheOne(children)]])

\* a variant that walks back to a parent that other layers read too
BackwardLink_SharedParent(h, g, lay, parents) ==
    /\ Cardinality(parents) = 1
    /\ IsBlockwise(h[g.layers[TheOne(parents)]])
    /\ LayerLen(h[g.layers[lay]]) = LayerLen(h[g.layers[TheOne(parents)]])

\* the condition of the backward walk: parent -> lay can be linked
BackwardLink(h, g, lay, parents) ==
    /\ Cardinality(parents) = 1
    /\ Dependents(g)[TheOne(parents)] = {lay}
    /\ IsBlockwise(h[g.layers[TheOne(parents)]])
    /\ LayerLen(h[g.layers[lay]]) = LayerLen(h[g.layers[TheOne(parents)]])

\* the forward while loop; err is set when all_layers.remove would raise
RECURSIVE WalkForward(_, _, _, _, _)
WalkForward(h, g, lay, chain, all) ==
    LET children == Dependents(g)[lay] IN
    IF ForwardLink(h, g, lay, children)
    THEN LET ch == TheOne(children) IN
         IF ch \notin all
         THEN [chain |-> Append(chain, ch), all |-> all, err |-> TRUE]
         ELSE WalkForward(h, g, ch, Append(chain, ch), all \ {ch})
    ELSE [chain |-> chain, all |-> all, err |-> FALSE]

\* a variant that never walks backward
WalkBackward_Stays(h, g, lay, chain, all) ==
    [chain |-> chain, all |-> all, err |-> FALSE]

\* the backward while loop
RECURSIVE WalkBackward(_, _, _, _, _)
WalkBackward(h, g, lay, chain, all) ==
    LET parents == g.deps[lay] IN
    IF BackwardLink(h, g, lay, parents)
    THEN LET pa == TheOne(parents) IN
         IF pa \notin all
         THEN [chain |-> <<pa>> \o chain, all |-> all, err |-> TRUE]
         ELSE WalkBackward(h, g, pa, <<pa>> \o chain, all \ {pa})
    ELSE [chain |-> chain, all |-> all, err |-> FALSE]

\* one iteration of `while all_layers` for the popped layer lay
FindChain(h, g, lay, all) ==
    LET fw == WalkForward(h, g, lay, <<lay>>, all) IN
    IF fw.err THEN fw ELSE WalkBackward(h, g, lay, fw.chain, fw.all)

--------------------------------------------------------------------------
(* rewrite_layer_chains: the rewrite of one chain *)

\* a variant that hands the arguments back as they are
RecursiveReplace_Unchanged(args, layer, parent, indices) ==
    [args2 |-> args, indices |-> indices]

\* _recursive_replace: the rewritten arguments and the grown indices list
RECURSIVE RecursiveReplace(_, _, _, _)
RecursiveReplace(args, layer, parent, indices) ==
    IF args = <<>> THEN [args2 |-> <<>>, indices |-> indices]
    ELSE
      LET arg == Head(args)
          one ==
            IF arg.t = "tok"
            THEN LET slot == layer.indices[arg.n + 1] IN
                 IF ~slot.part
                 THEN [a |-> Str(slot.name), indices |-> indices]
                 ELSE IF slot.name = parent
                 THEN [a |-> Str(parent), indices |-> indices]
                 ELSE [a |-> Tok(Len(indices)),
                       indices |-> Append(indices, slot)]
            ELSE IF arg.t \in {"list", "tuple"}
            THEN LET r == RecursiveReplace(arg.items, layer, parent, indices)
                 IN  [a |-> [arg EXCEPT !.items = r.args2],
                      indices |-> r.indices]
            ELSE [a |-> arg, indices |-> indices]
          rest == RecursiveReplace(Tail(args), layer, parent, one.indices)
      IN  [args2 |-> <<one.a>> \o rest.args2, indices |-> rest.indices]

\* [nb[0] for nb in layer0.numblocks.values() if nb[0] is not None]
SharedNumblocks(layer0) == [i \in DOMAIN layer0.numblocks |-> layer0.numblocks[i].nb]

\* outlayer.io_deps = layer0.io_deps: the dictionary the fused layer writes to
FusedIoDeps(h, layer0) == layer0.io_deps

\* for k in layer.io_deps: outlayer.io_deps[k] = layer.io_deps[k]
MergeIoDeps(d, target, source) ==
    IF source = 0 \/ target = 0 THEN d
    ELSE [d EXCEPT ![target] =
            [k \in DOMAIN d[target] \cup DOMAIN d[source] |->
                IF k \in DOMAIN d[source] THEN d[source][k] ELSE d[target][k]]]

\* the loop over chain[1:]: acc = [dicts, subgraph, indices, parent]
RECURSIVE FuseMembers(_, _, _, _, _)
FuseMembers(h, g, members, target, acc) ==
    IF members = <<>> THEN acc
    ELSE
      LET chain_member == Head(members)
          layer == h[g.layers[chain_member]]
          task == layer.dsk[chain_member]
          r == RecursiveReplace(task.args, layer, acc.parent, acc.indices)
      IN  FuseMembers(h, g, Tail(members), target,
            [dicts |-> MergeIoDeps(acc.dicts, target, layer.io_deps),
             subgraph |-> Put(acc.subgraph, chain_member,
                              [task EXCEPT !.args = r.args2]),
             indices |-> r.indices,
             parent |-> chain_member])

\* {i[0]: (numblocks,) for i in indices if i[1] is not None}, in dict order
RECURSIVE FusedNumblocks(_, _, _)
FusedNumblocks(indices, numblocks, seen) ==
    IF indices = <<>> THEN <<>>
    ELSE LET i == Head(indices) IN
         IF i.part /\ i.name \notin seen
         THEN <<[name |-> i.name, nb |-> numblocks]>>
              \o FusedNumblocks(Tail(indices), numblocks, seen \cup {i.name})
         ELSE FusedNumblocks(Tail(indices), numblocks, seen)

\* a variant that leaves the entries of the earlier members of the chain
ChainDeps_KeepsMembers(d, chain) == Put(d, Last(chain), d[chain[1]])

\* lines 343-344: the dependency map after a chain is rewritten
ChainDeps(d, chain) ==
    Drop(Put(d, Last(chain), d[chain[1]]), Range(Front(chain)))

\* the body of `for chain in chains` on the shallow copy outlayer
FuseChain(h, d, g, chain, outlayer) ==
    LET layer0 == h[g.layers[chain[1]]]
        numblocks == SharedNumblocks(layer0)[1]
        target == FusedIoDeps(h, layer0)
        acc == FuseMembers(h, g, Tail(chain), target,
                 [dicts |-> d, subgraph |-> layer0.dsk,
                  indices |-> layer0.indices, parent |-> chain[1]])
    IN  [dicts |-> acc.dicts,
         layer |-> [outlayer EXCEPT
                      !.io_deps = target,
                      !.numblocks = FusedNumblocks(acc.indices, numblocks, {}),
                      !.dsk = acc.subgraph,
                      !.indices = acc.indices,
                      !.cached = FALSE]]

--------------------------------------------------------------------------
(* Evaluation of a graph key.  A value is a term [op, at, part, cols,      *)
(* args]; two keys yield the same value iff their terms are equal.         *)

T(op, at, part, cols, args) ==
    [op |-> op, at |-> at, part |-> part, cols |-> cols, args |-> args]

KeyErr == T("KeyError", "", 0, {}, <<>>)

\* numblocks[name] of a layer (1 when the layer has no entry)
NbOf(l, nm) ==
    IF \E j \in DOMAIN l.numblocks : l.numblocks[j].name = nm
    THEN l.numblocks[CHOOSE j \in DOMAIN l.numblocks :
                        /\ l.numblocks[j].name = nm
                        /\ \A k \in 1..(j - 1) : l.numblocks[k].name # nm].nb
    ELSE 1

\* the block of input nm that output partition i of layer l reads
Coord(l, nm, i) == IF NbOf(l, nm) > 1 THEN i ELSE 0

\* a field access keeps only the named column of a record it reads
FieldOf(func) == IF func = "fld_foo" THEN {"foo"} ELSE {"baz.y"}

\* the value of calling task.func on the argument values
Apply(task, vals) ==
    LET func == IF task.func = "_touch_and_call_fn" THEN vals[1].at
                ELSE task.func
        av == IF task.func = "_touch_and_call_fn" THEN Tail(vals) ELSE vals
    IN
    CASE func \in {"io_func", "mock_io"} ->
           T(IF func = "mock_io" THEN "mock_read" ELSE "read",
             task.fid, av[1].part, task.cols, <<>>)
      [] func \in {"fld_foo", "fld_bazy"} ->
           IF av[1].op \in {"read", "mock_read"}
           THEN [av[1] EXCEPT !.cols = av[1].cols \cap FieldOf(func)]
           ELSE T(func, task.fid, 0, {}, av)
      [] OTHER -> T(func, task.fid, 0, {}, av)

RECURSIVE EvalKey(_, _, _, _, _)
RECURSIVE EvalEntry(_, _, _, _, _, _)
RECURSIVE EvalArg(_, _, _, _, _, _, _)

\* the value of key (n, i) of graph g
EvalKey(h, d, g, n, i) ==
    IF n \notin DOMAIN g.layers THEN KeyErr
    ELSE LET l == h[g.layers[n]] IN
         IF i >= LayerLen(l) \/ n \notin DOMAIN l.dsk THEN KeyErr
         ELSE EvalEntry(h, d, g, l, n, i)

\* the value of entry k of layer l's task template at partition i
EvalEntry(h, d, g, l, k, i) ==
    LET task == l.dsk[k] IN
    Apply(task, [j \in DOMAIN task.args |->
                    EvalArg(h, d, g, l, k, i, task.args[j])])

EvalArg(h, d, g, l, k, i, arg) ==
    CASE arg.t = "tok" ->
           IF arg.n + 1 > Len(l.indices) THEN KeyErr
           ELSE LET slot == l.indices[arg.n + 1] IN
                IF ~slot.part THEN T("lit", slot.name, 0, {}, <<>>)
                ELSE IF l.io_deps # 0 /\ slot.name \in DOMAIN d[l.io_deps]
                THEN T("block", d[l.io_deps][slot.name],
                       Coord(l, slot.name, i), {}, <<>>)
                ELSE EvalKey(h, d, g, slot.name, Coord(l, slot.name, i))
      [] arg.t = "str" ->
           IF arg.v \in DOMAIN l.dsk /\ arg.v # k
           THEN EvalEntry(h, d, g, l, arg.v, i)
           ELSE IF l.kind = "other" /\ arg.v \in DOMAIN g.layers
           THEN EvalKey(h, d, g, arg.v,
                        IF i < LayerLen(h[g.layers[arg.v]]) THEN i ELSE 0)
           ELSE T("lit", arg.v, 0, {}, <<>>)
      [] OTHER ->
           T(arg.t, "", 0, {},
             [j \in DOMAIN arg.items |->
                 EvalArg(h, d, g, l, k, i, arg.items[j])])

--------------------------------------------------------------------------
(* The tracer: what an evaluation on mock layers reports as touched.       *)

RECURSIVE Carried(_)
\* the (input layer, column) buffers a value still refers to untouched
Carried(v) ==
    IF v.op = "mock_read" THEN {<<v.at, c>> : c \in v.cols}
    ELSE IF v.op \in {"list", "tuple"}
    THEN UNION {Carried(v.args[j]) : j \in DOMAIN v.args}
    ELSE {}

RECURSIVE Touched(_)
\* the buffers touched while the value was computed
Touched(v) ==
    UNION {Touched(v.args[j]) : j \in DOMAIN v.args}
    \cup (IF v.op \in {"read", "mock_read", "list", "tuple", "lit", "block",
                       "fld_foo", "fld_bazy", "sink", "KeyError"}
          THEN {}
          ELSE UNION {Carried(v.args[j]) : j \in DOMAIN v.args})

RECURSIVE Raises(_)
\* the evaluation of the value raised
Raises(v) ==
    \/ v.op \in {"er", "KeyError"}
    \/ \E j \in DOMAIN v.args : Raises(v.args[j])

--------------------------------------------------------------------------
(* optimize_columns *)

NamesOf(g) == DOMAIN g.layers

\* a variant that takes any input layer for a projectable one
HasProjectableAwkwardIoLayer_AnyInput(h, g) ==
    \E n \in NamesOf(g) : IsInput(h[g.layers[n]])

\* _has_projectable_awkward_io_layer, lines 237-242
HasProjectableAwkwardIoLayer(h, g) ==
    \E n \in NamesOf(g) : IsInput(h[g.layers[n]]) /\ h[g.layers[n]].is_projectable

ProjectableInputLayerNames(h, g) ==
    {n \in NamesOf(g) : IsInput(h[g.layers[n]]) /\ h[g.layers[n]].is_projectable}

AkOutputLayerNames(h, g) == {n \in NamesOf(g) : h[g.layers[n]].ak_output}

OptTouchAllLayerNames(h, g) == {n \in NamesOf(g) : h[g.layers[n]].touch_all}

\* layer.mock(): a copy producing tracer values; a projectable input layer
\* reports what is touched under its own name
MockLayer(l, n, projectable) ==
    [l EXCEPT !.tracer = TRUE,
              !.dsk = IF projectable
                      THEN [k \in DOMAIN l.dsk |->
                              IF l.dsk[k].func = "io_func"
                              THEN [l.dsk[k] EXCEPT !.func = "mock_io", !.fid = n]
                              ELSE l.dsk[k]]
                      ELSE l.dsk]

\* layer.project(state): a copy whose io function reads only state
ProjectLayer(l, state) ==
    [l EXCEPT !.dsk = [k \in DOMAIN l.dsk |->
                         IF l.dsk[k].func = "io_func"
                         THEN [l.dsk[k] EXCEPT !.cols = state]
                         ELSE l.dsk[k]]]

\* a variant that deep-copies the layer and leaves its function in place
MockOutput_KeepsFunction(l, newdict) == [l EXCEPT !.io_deps = newdict]

\* _mock_output on a deep copy: the task calls _touch_all_data
MockOutput(l, newdict) ==
    [l EXCEPT !.io_deps = newdict,
              !.dsk = [k \in DOMAIN l.dsk |->
                         [l.dsk[k] EXCEPT !.func = "_touch_all_data"]]]

\* _touch_and_call on a deep copy: the task calls _touch_and_call_fn(fn, ...)
TouchAndCall(l, newdict) ==
    [l EXCEPT !.io_deps = newdict,
              !.dsk = [k \in DOMAIN l.dsk |->
                         [l.dsk[k] EXCEPT
                            !.func = "_touch_and_call_fn",
                            !.args = <<Str(l.dsk[k].func)>> \o l.dsk[k].args]]]

\* lines 118-126: b = [heap, dicts, pl, raised] after visiting names
RECURSIVE MockAll(_, _, _, _)
MockAll(g, proj, names, b) ==
    IF names = <<>> \/ b.raised # "none" THEN b
    ELSE LET n == Head(names)
             lay == b.heap[g.layers[n]]
         IN
         IF n \in proj \/ lay.mockable
         THEN IF lay.mock_raises
              THEN [b EXCEPT !.raised = "MockError"]
              ELSE MockAll(g, proj, Tail(names),
                     [b EXCEPT !.heap = Append(b.heap, MockLayer(lay, n, n \in proj)),
                               !.pl = Put(b.pl, n, Len(b.heap) + 1)])
         ELSE MockAll(g, proj, Tail(names), b)

\* lines 128-132: wrap the layers named, each on a deep copy
RECURSIVE WrapAll(_, _, _)
WrapAll(names, output, b) ==
    IF names = <<>> \/ b.raised # "none" THEN b
    ELSE LET n == Head(names)
             lay == b.heap[b.pl[n]]
             nd == IF lay.io_deps = 0 THEN 0 ELSE Len(b.dicts) + 1
         IN
         IF Cardinality(DOMAIN lay.dsk) # 1
         THEN [b EXCEPT !.raised = "AssertionError"]
         ELSE WrapAll(Tail(names), output,
                [b EXCEPT
                   !.heap = Append(b.heap, IF output THEN MockOutput(lay, nd)
                                           ELSE TouchAndCall(lay, nd)),
                   !.dicts = IF nd = 0 THEN b.dicts
                             ELSE Append(b.dicts, b.dicts[lay.io_deps]),
                   !.pl = Put(b.pl, n, Len(b.heap) + 1)])

\* lines 117-134: the tracer graph
BuildTracerGraph(h, d, g) ==
    LET b0 == [heap |-> h, dicts |-> d, pl |-> g.layers, raised |-> "none"]
        b1 == MockAll(g, ProjectableInputLayerNames(h, g), DepSeq(NamesOf(g), 1), b0)
        b2 == WrapAll(DepSeq(AkOutputLayerNames(h, g), 1), TRUE, b1)
    IN  WrapAll(DepSeq(OptTouchAllLayerNames(h, g), 1), FALSE, b2)

\* a variant that takes every layer for a leaf
LeafLayersKeys_EveryLayer(g) == DOMAIN g.deps

\* lines 144-146
LeafLayersKeys(g) == {k \in DOMAIN g.deps : Dependents(g)[k] = {}}

\* lines 153-154: every layer of the tracer graph loses its cached dict
PopCachedDict(h, pl) ==
    [o \in DOMAIN h |->
        IF \E n \in DOMAIN pl : pl[n] = o THEN [h[o] EXCEPT !.cached = FALSE]
        ELSE h[o]]

\* line 155: get_sync first turns the whole graph into a plain dict, which
\* leaves every layer of the tracer graph with a cached dict again
Materialise(h, pl) ==
    [o \in DOMAIN h |->
        IF \E n \in DOMAIN pl : pl[n] = o THEN [h[o] EXCEPT !.cached = TRUE]
        ELSE h[o]]

\* line 155: get_sync(hlg, leaf_layers_keys)
GetSync(h, d, hlg, leaves) == [k \in leaves |-> EvalKey(h, d, hlg, k, 0)]

\* the exception the evaluation ends with, "none" if it returns
EvalError(results) ==
    IF \E k \in DOMAIN results : Raises(results[k])
    THEN "TracerError" ELSE "none"

\* lines 156-158: the final touch of every result
TouchResults(results) ==
    UNION {Carried(results[k]) : k \in DOMAIN results}

\* the columns the tracer recorded for the projectable input layer n
ProjectionState(results, n) ==
    {c \in AllColumns :
        <<n, c>> \in TouchResults(results)
                       \cup UNION {Touched(results[k]) : k \in DOMAIN results}}

\* a variant that starts from the layers of the tracer graph
CopyOfLayers_Projection(dsk_layers, projection_layers) == projection_layers

\* line 180: layers = dsk.layers.copy()
CopyOfLayers(dsk_layers, projection_layers) == dsk_layers

\* lines 181-182: layers[name] = layers[name].project(state), the projected
\* layers being the new objects firstNew, firstNew + 1, ...
ProjectedLayers(base, proj, firstNew) ==
    [n \in DOMAIN base |->
        IF n \in proj
        THEN firstNew + Cardinality({m \in proj : Idx(m) < Idx(n)})
        ELSE base[n]]

OnFailValues == {"warn", "pass", "raise", "bogus"}

\* warnings.warn(COLUMN_OPT_FAILED_WARNING_MSG.format(...)), lines 163-165
Warning(err) ==
    [template |-> "COLUMN_OPT_FAILED_WARNING_MSG", exception |-> err]

\* the text of an exception that has none worth modelling
NoMessage == [bad |-> "", valid |-> {}]

\* lines 172-176: the text of the ValueError names the value read and the
\* three valid ones
InvalidOnFail(on_fail) ==
    [bad |-> on_fail, valid |-> {"warn", "pass", "raise"}]

\* a variant that warns and then raises all the same
OnFail_WarnRaises(on_fail, err) ==
    CASE on_fail = "warn" ->
           [ret |-> FALSE, raised |-> err, warned |-> <<Warning(err)>>,
            message |-> NoMessage]
      [] on_fail = "pass" ->
           [ret |-> TRUE, raised |-> "none", warned |-> <<>>,
            message |-> NoMessage]
      [] on_fail = "raise" ->
           [ret |-> FALSE, raised |-> err, warned |-> <<>>,
            message |-> NoMessage]
      [] OTHER ->
           [ret |-> FALSE, raised |-> "ValueError", warned |-> <<>>,
            message |-> InvalidOnFail(on_fail)]

\* a variant that lets the original exception through on an unknown policy
OnFail_UnknownRaises(on_fail, err) ==
    CASE on_fail = "warn" ->
           [ret |-> TRUE, raised |-> "none", warned |-> <<Warning(err)>>,
            message |-> NoMessage]
      [] on_fail = "pass" ->
           [ret |-> TRUE, raised |-> "none", warned |-> <<>>,
            message |-> NoMessage]
      [] OTHER ->
           [ret |-> FALSE, raised |-> err, warned |-> <<>>,
            message |-> NoMessage]

\* lines 160-177: what the except branch does with the exception err
OnFail(on_fail, err) ==
    CASE on_fail = "warn" ->
           [ret |-> TRUE, raised |-> "none", warned |-> <<Warning(err)>>,
            message |-> NoMessage]
      [] on_fail = "pass" ->
           [ret |-> TRUE, raised |-> "none", warned |-> <<>>,
            message |-> NoMessage]
      [] on_fail = "raise" ->
           [ret |-> FALSE, raised |-> err, warned |-> <<>>,
            message |-> NoMessage]
      [] OTHER ->
           [ret |-> FALSE, raised |-> "ValueError", warned |-> <<>>,
            message |-> InvalidOnFail(on_fail)]

--------------------------------------------------------------------------
(* The input graphs.  Layer i of NameSeq depends on a set of earlier       *)
(* layers and has one of the flavours below.                               *)

SourceFlavours == {"inP", "inN"}
InnerFlavours == {"ew", "fld_foo", "fld_bazy", "io", "bc1", "bc2", "oth",
                  "out", "ta", "mr", "er"}

DepSlots(ds) == [k \in DOMAIN ds |-> Slot(ds[k], TRUE)]
DepToks(ds, from) == [k \in DOMAIN ds |-> Tok(from + k - 1)]

\* numblocks of the dependency slots: each names the dependency's len
DepBlocks(h, ds) ==
    [k \in DOMAIN ds |-> [name |-> ds[k], nb |-> LayerLen(h[Idx(ds[k])])]]

Task1(n, func, cols, args) ==
    [k \in {n} |-> [func |-> func, fid |-> n, cols |-> cols, args |-> args]]

BaseLayer(i) ==
    [kind |-> "blockwise", name |-> NameSeq[i], npart |-> 0,
     indices |-> <<>>, numblocks |-> <<>>, io_deps |-> i,
     dsk |-> EmptyFn, cached |-> FALSE,
     is_projectable |-> FALSE, mockable |-> TRUE, mock_raises |-> FALSE,
     ak_output |-> FALSE, touch_all |-> FALSE, tracer |-> FALSE]

\* the layer object of layer i, given the heap of the earlier layers
MakeLayer(h, i, D, fl, P) ==
    LET n == NameSeq[i]
        ds == DepSeq(D, 1)
        plen == IF ds = <<>> THEN P ELSE LayerLen(h[Idx(ds[1])])
        other == IF plen > 1 THEN 1 ELSE MaxParts
        bw == [BaseLayer(i) EXCEPT !.indices = DepSlots(ds),
                                   !.numblocks = DepBlocks(h, ds),
                                   !.dsk = Task1(n, "ew", {}, DepToks(ds, 0))]
    IN
    CASE fl \in SourceFlavours ->
           [BaseLayer(i) EXCEPT
              !.kind = "input",
              !.indices = <<Slot(IoSeq[i], TRUE)>>,
              !.numblocks = <<[name |-> IoSeq[i], nb |-> P]>>,
              !.dsk = Task1(n, "io_func", AllColumns, <<Tok(0)>>),
              !.is_projectable = (fl = "inP")]
      [] fl = "ew" -> bw
      [] fl \in {"fld_foo", "fld_bazy", "er"} ->
           [bw EXCEPT !.dsk = Task1(n, fl, {}, DepToks(ds, 0))]
      [] fl = "io" ->
           [bw EXCEPT
              !.indices = <<Slot(ds[1], TRUE), Slot(LitSeq[i], FALSE),
                            Slot(IoSeq[i], TRUE)>> \o DepSlots(Tail(ds)),
              !.numblocks = <<[name |-> ds[1], nb |-> plen],
                              [name |-> IoSeq[i], nb |-> plen]>>
                            \o DepBlocks(h, Tail(ds)),
              !.dsk = Task1(n, "ew", {},
                        <<Tok(0), Lst(<<Tok(1), Tup(<<Tok(2)>>)>>)>>
                        \o DepToks(Tail(ds), 3)),
              !.cached = TRUE]
      [] fl = "bc1" ->
           [bw EXCEPT
              !.indices = <<Slot(IoSeq[i], TRUE)>> \o DepSlots(ds),
              !.numblocks = <<[name |-> IoSeq[i], nb |-> other]>>
                            \o DepBlocks(h, ds),
              !.dsk = Task1(n, "ew", {}, <<Tok(0)>> \o DepToks(ds, 1))]
      [] fl = "bc2" ->
           [bw EXCEPT
              !.indices = DepSlots(ds) \o <<Slot(IoSeq[i], TRUE)>>,
              !.numblocks = DepBlocks(h, ds)
                            \o <<[name |-> IoSeq[i], nb |-> other]>>,
              !.dsk = Task1(n, "ew", {}, DepToks(ds, 0) \o <<Tok(Len(ds))>>)]
      [] fl = "oth" ->
           [BaseLayer(i) EXCEPT
              !.kind = "other", !.npart = plen, !.io_deps = 0,
              !.mockable = FALSE, !.cached = TRUE,
              !.dsk = Task1(n, "opaque", {}, [k \in DOMAIN ds |-> Str(ds[k])])]
      [] fl = "out" ->
           [bw EXCEPT !.ak_output = TRUE,
                      !.dsk = Task1(n, "sink", {}, DepToks(ds, 0))]
      [] fl = "ta" -> [bw EXCEPT !.touch_all = TRUE]
      [] fl = "mr" -> [bw EXCEPT !.mock_raises = TRUE]
      [] fl = "lit" ->
           [BaseLayer(i) EXCEPT
              !.npart = P,
              !.indices = <<Slot(LitSeq[i], FALSE)>>,
              !.dsk = Task1(n, "ew", {}, <<Tok(0)>>)]

\* the io_deps dictionary of layer i
MakeDict(i, fl) ==
    IF fl \in SourceFlavours \cup {"io", "bc1", "bc2"}
    THEN [k \in {IoSeq[i]} |-> IoSeq[i]]
    ELSE [k \in {} |-> ""]

DepChoices(i) ==
    {D \in SUBSET {NameSeq[j] : j \in 1..(i - 1)} : Cardinality(D) <= 2}

\* every well-shaped [deps, fl] sequence for layers 1..n
RECURSIVE Shapes(_)
Shapes(n) ==
    IF n = 0 THEN {<<>>}
    ELSE {Append(s, [deps |-> D, fl |-> fl]) :
            s \in Shapes(n - 1),
            D \in DepChoices(n),
            fl \in SourceFlavours \cup InnerFlavours}

WellShaped(s) ==
    \A i \in DOMAIN s :
        IF s[i].deps = {} THEN s[i].fl \in SourceFlavours
        ELSE s[i].fl \in InnerFlavours

\* the docstring's example: z = ds["foo"] - ds["baz"]["y"]
DocShape ==
    <<[deps |-> {}, fl |-> "inP"], [deps |-> {"a"}, fl |-> "fld_foo"],
      [deps |-> {"a"}, fl |-> "fld_bazy"], [deps |-> {"b", "c"}, fl |-> "ew"]>>

\* a fan-out next to a chain: b and c read a, d reads c
FanShape ==
    <<[deps |-> {}, fl |-> "inP"], [deps |-> {"a"}, fl |-> "ew"],
      [deps |-> {"a"}, fl |-> "ew"], [deps |-> {"c"}, fl |-> "ew"]>>

\* a chain whose first member has no partitioned input, only a literal
LitShape ==
    <<[deps |-> {}, fl |-> "lit"], [deps |-> {"a"}, fl |-> "ew"],
      [deps |-> {"b"}, fl |-> "out"]>>

\* two chains side by side: b reads a, d reads c
TwoChainShape ==
    <<[deps |-> {}, fl |-> "inP"], [deps |-> {"a"}, fl |-> "io"],
      [deps |-> {}, fl |-> "inN"], [deps |-> {"c"}, fl |-> "ew"]>>

InputShapes ==
    {x \in Shapes(Len(FamilyNames)) : WellShaped(x)}
      \cup {DocShape, FanShape, LitShape, TwoChainShape}

RECURSIVE BuildHeap(_, _, _)
BuildHeap(s, i, P) ==
    IF i = 0 THEN <<>>
    ELSE LET h == BuildHeap(s, i - 1, P) IN
         Append(h, MakeLayer(h, i, s[i].deps, s[i].fl, P))

BuildGraph(s) ==
    [layers |-> [n \in {NameSeq[i] : i \in DOMAIN s} |-> Idx(n)],
     deps |-> [n \in {NameSeq[i] : i \in DOMAIN s} |-> s[Idx(n)].deps]]

--------------------------------------------------------------------------
(* State machine *)

NoGraph == [layers |-> EmptyFn, deps |-> EmptyFn]

\* the state before the first call, on one of the graphs of shapes
InitOn(shapes) ==
    \E s \in shapes, P \in 1..MaxParts :
      /\ heap = BuildHeap(s, Len(s), P)
      /\ dicts = [i \in DOMAIN s |-> MakeDict(i, s[i].fl)]
      /\ graph = BuildGraph(s)
      /\ pc = "idle"
      /\ enabled = FALSE
      /\ which = <<>>
      /\ dsk = NoGraph
      /\ snap = [heap |-> <<>>, dicts |-> <<>>]
      /\ all_layers = {}
      /\ chains = <<>>
      /\ layers = EmptyFn
      /\ deps = EmptyFn
      /\ chain_i = 0
      /\ calls = 0
      /\ hist = <<>>

Init == InitOn(InputShapes)

\* the graphs on which the dispatcher is exercised with every configuration
InitDispatch == InitOn({DocShape, FanShape, LitShape, TwoChainShape})

fuseVars == <<all_layers, chains, layers, deps, chain_i>>

\* what a finished pass leaves in hist
PassRecord(op, out, raised, h1, d1, extra) ==
    [op |-> op, call |-> calls, in |-> dsk, out |-> out, raised |-> raised,
     heap0 |-> snap.heap, dicts0 |-> snap.dicts, heap1 |-> h1, dicts1 |-> d1,
     extra |-> extra]

\* awkward.optimization.which is a list of names, in any order
WhichValues ==
    {<<>>, <<"columns">>, <<"layer-chains">>, <<"columns", "layer-chains">>,
     <<"layer-chains", "columns">>}

\* a variant that runs the passes named whatever the master flag says
Schedule_IgnoresEnabled(en, w) ==
    (IF "columns" \in Range(w) THEN <<"columns">> ELSE <<>>)
    \o (IF "layer-chains" \in Range(w) THEN <<"chains">> ELSE <<>>)

\* lines 73-79: the passes optimize runs, in the order it runs them
Schedule(en, w) ==
    IF en
    THEN (IF "columns" \in Range(w) THEN <<"columns">> ELSE <<>>)
         \o (IF "layer-chains" \in Range(w) THEN <<"chains">> ELSE <<>>)
    ELSE <<>>

\* every configuration: the master flag and the list of names
Configs == BOOLEAN \X WhichValues

\* the configurations but for those that differ from another only in what
\* the dispatcher alone looks at: the list when the flag is off, and the
\* order of the names
PlainConfigs ==
    {c \in Configs :
        /\ c[1] \/ c[2] = <<>>
        /\ c[2] # <<"layer-chains", "columns">>}

\* optimize, lines 73-76: read the configuration and dispatch; the call is
\* made on the graph the previous call returned, limit calls at most, with
\* one of the configurations cfgs.
OptimizeUpTo(limit, cfgs) ==
    /\ pc = "idle"
    /\ calls < limit
    /\ \E c \in cfgs :
         LET en == c[1]
             w == c[2]
         IN
         /\ enabled' = en
         /\ which' = w
         /\ pc' = (IF Schedule(en, w) = <<>> THEN "idle"
                   ELSE Schedule(en, w)[1])
    /\ calls' = calls + 1
    /\ dsk' = graph
    /\ snap' = [heap |-> heap, dicts |-> dicts]
    /\ UNCHANGED <<heap, dicts, graph, fuseVars, hist>>

\* optimize is called on a graph
Optimize == OptimizeUpTo(MaxCalls, PlainConfigs)

\* optimize is called on a graph, and again on the graph it returned
OptimizeAgain == OptimizeUpTo(MaxCalls + 1, PlainConfigs)

\* optimize is called, and called again, under any configuration
OptimizeAnyConfig == OptimizeUpTo(MaxCalls + 1, Configs)

\* optimize_columns returned out; optimize goes on (lines 77-80)
ColumnsReturn(out, h1, d1, extra) ==
    /\ heap' = h1
    /\ dicts' = d1
    /\ hist' = Append(hist, PassRecord("columns", out, "none", h1, d1, extra))
    /\ IF "chains" \in Range(Schedule(enabled, which))
       THEN /\ pc' = "chains"
            /\ dsk' = out
            /\ snap' = [heap |-> h1, dicts |-> d1]
            /\ UNCHANGED graph
       ELSE /\ pc' = "idle"
            /\ graph' = out
            /\ UNCHANGED <<dsk, snap>>

\* optimize_columns raised exc, and so does optimize
ColumnsRaise(exc, h1, d1, extra) ==
    /\ heap' = h1
    /\ dicts' = d1
    /\ hist' = Append(hist, PassRecord("columns", NoGraph, exc, h1, d1, extra))
    /\ pc' = "idle"
    /\ UNCHANGED <<graph, dsk, snap>>

\* what optimize_columns did: took the early exit, mocked which layers, ran
\* the evaluator, the exception it met, the policy it read ("unread" when
\* line 160 was not reached), the warnings, the tracer graph, the state
ColumnsExtra(noop, mocked, evaluated, err, on_fail, warned, pl, state) ==
    [noop |-> noop, mocked |-> mocked, evaluated |-> evaluated, err |-> err,
     on_fail |-> on_fail, warned |-> warned, pl |-> pl, state |-> state,
     message |-> NoMessage]

\* optimize_columns, lines 114-184
OptimizeColumns ==
    /\ pc = "columns"
    /\ IF ~HasProjectableAwkwardIoLayer(heap, dsk)
       THEN ColumnsReturn(dsk, heap, dicts,
              ColumnsExtra(TRUE, {}, FALSE, "none", "unread", <<>>, EmptyFn,
                           EmptyFn))
       ELSE
         LET b == BuildTracerGraph(heap, dicts, dsk)
             mocked == {n \in NamesOf(dsk) : b.pl[n] # dsk.layers[n]}
         IN
         IF b.raised # "none"
         THEN ColumnsRaise(b.raised, b.heap, b.dicts,
                ColumnsExtra(FALSE, mocked, FALSE, b.raised, "unread", <<>>,
                             b.pl, EmptyFn))
         ELSE
           LET hlg == [layers |-> b.pl, deps |-> dsk.deps]
               h1 == Materialise(PopCachedDict(b.heap, b.pl), b.pl)
               results == GetSync(h1, b.dicts, hlg, LeafLayersKeys(dsk))
               proj == ProjectableInputLayerNames(heap, dsk)
               state == [n \in proj |-> ProjectionState(results, n)]
               err == EvalError(results)
           IN
           IF err # "none"
           THEN \E on_fail \in OnFailValues :
                  LET r == OnFail(on_fail, err)
                      x == ColumnsExtra(FALSE, mocked, TRUE, err, on_fail,
                                        r.warned, b.pl, EmptyFn)
                      xm == [x EXCEPT !.message = r.message]
                  IN  IF r.ret THEN ColumnsReturn(dsk, h1, b.dicts, xm)
                      ELSE ColumnsRaise(r.raised, h1, b.dicts, xm)
           ELSE
             LET base == CopyOfLayers(dsk.layers, b.pl)
                 newl == ProjectedLayers(base, proj, Len(h1) + 1)
                 h2 == h1 \o [j \in 1..Cardinality(proj) |->
                         LET n == DepSeq(proj, 1)[j] IN
                         ProjectLayer(h1[base[n]], state[n])]
             IN  ColumnsReturn([layers |-> newl, deps |-> dsk.deps], h2,
                   b.dicts,
                   ColumnsExtra(FALSE, mocked, TRUE, "none", "unread", <<>>,
                                b.pl, state))
    /\ UNCHANGED <<enabled, which, fuseVars, calls>>

\* rewrite_layer_chains, lines 285-291
RewriteLayerChains ==
    /\ pc = "chains"
    /\ pc' = "discover"
    /\ chains' = <<>>
    /\ deps' = dsk.deps
    /\ layers' = EmptyFn
    /\ all_layers' = DOMAIN dsk.layers
    /\ chain_i' = 1
    /\ snap' = [heap |-> heap, dicts |-> dicts]
    /\ UNCHANGED <<heap, dicts, graph, enabled, which, dsk, calls, hist>>

\* one iteration of `while all_layers`, lines 292-332
Discover ==
    /\ pc = "discover"
    /\ all_layers # {}
    /\ \E lay \in all_layers :
         LET val == dsk.layers[lay]
             rest == all_layers \ {lay}
         IN
         IF ~IsBlockwise(heap[val])
         THEN /\ layers' = Put(layers, lay, val)
              /\ all_layers' = rest
              /\ UNCHANGED <<chains, heap, pc, hist>>
         ELSE
           LET r == FindChain(heap, dsk, lay, rest) IN
           IF r.err
           THEN /\ pc' = "idle"
                /\ hist' = Append(hist, PassRecord("chains", NoGraph,
                                    "KeyError", heap, dicts, chains))
                /\ UNCHANGED <<chains, heap, layers, all_layers>>
           ELSE IF Len(r.chain) > 1
           THEN /\ chains' = Append(chains, r.chain)
                /\ heap' = Append(heap, heap[dsk.layers[Last(r.chain)]])
                /\ layers' = Put(layers, Last(r.chain), Len(heap) + 1)
                /\ all_layers' = r.all
                /\ UNCHANGED <<pc, hist>>
           ELSE /\ layers' = Put(layers, lay, val)
                /\ all_layers' = r.all
                /\ UNCHANGED <<chains, heap, pc, hist>>
    /\ UNCHANGED <<dicts, graph, enabled, which, dsk, snap, deps, chain_i,
                   calls>>

\* `while all_layers` ends, line 292
DiscoverDone ==
    /\ pc = "discover"
    /\ all_layers = {}
    /\ pc' = "rewrite"
    /\ UNCHANGED <<heap, dicts, graph, enabled, which, dsk, snap, fuseVars,
                   calls, hist>>

\* one iteration of `for chain in chains`, lines 335-369
RewriteChain ==
    /\ pc = "rewrite"
    /\ chain_i <= Len(chains)
    /\ LET chain == chains[chain_i]
           outkey == Last(chain)
           layer0 == heap[dsk.layers[chain[1]]]
       IN
       IF SharedNumblocks(layer0) = <<>>
       THEN /\ pc' = "idle"
            /\ hist' = Append(hist, PassRecord("chains", NoGraph,
                                "IndexError", heap, dicts, chains))
            /\ UNCHANGED <<heap, dicts, deps, chain_i>>
       ELSE
         LET r == FuseChain(heap, dicts, dsk, chain, heap[layers[outkey]]) IN
         /\ heap' = [heap EXCEPT ![layers[outkey]] = r.layer]
         /\ dicts' = r.dicts
         /\ deps' = ChainDeps(deps, chain)
         /\ chain_i' = chain_i + 1
         /\ UNCHANGED <<pc, hist>>
    /\ UNCHANGED <<graph, enabled, which, dsk, snap, all_layers, chains,
                   layers, calls>>

\* return HighLevelGraph(layers, deps), line 370
RewriteReturn ==
    /\ pc = "rewrite"
    /\ chain_i > Len(chains)
    /\ pc' = "idle"
    /\ graph' = [layers |-> layers, deps |-> deps]
    /\ hist' = Append(hist, PassRecord("chains",
                        [layers |-> layers, deps |-> deps], "none", heap,
                        dicts, chains))
    /\ UNCHANGED <<heap, dicts, enabled, which, dsk, snap, fuseVars, calls>>

Next ==
    \/ Optimize
    \/ OptimizeColumns
    \/ RewriteLayerChains
    \/ Discover
    \/ DiscoverDone
    \/ RewriteChain
    \/ RewriteReturn

Spec == Init /\ [][Next]_vars

NextAgain ==
    \/ OptimizeAgain
    \/ OptimizeColumns
    \/ RewriteLayerChains
    \/ Discover
    \/ DiscoverDone
    \/ RewriteChain
    \/ RewriteReturn

\* the optimizer applied once more to its own result
SpecAgain == Init /\ [][NextAgain]_vars

NextDispatch ==
    \/ OptimizeAnyConfig
    \/ OptimizeColumns
    \/ RewriteLayerChains
    \/ Discover
    \/ DiscoverDone
    \/ RewriteChain
    \/ RewriteReturn

\* successive calls of the dispatcher under every configuration
SpecDispatch == InitDispatch /\ [][NextDispatch]_vars

--------------------------------------------------------------------------
(* Claims *)

\* the passes finished so far
Passes(op) == {j \in DOMAIN hist : hist[j].op = op}

\* the passes that returned a graph
Returned(op) == {j \in Passes(op) : hist[j].raised = "none"}

\* the layers of g that no layer depends on
Terminals(g) ==
    {n \in DOMAIN g.layers : \A m \in DOMAIN g.deps : n \notin g.deps[m]}

\* l1 and l2 have the same attributes, the cached task dictionary aside
SameButCache(l1, l2) == [l1 EXCEPT !.cached = FALSE] = [l2 EXCEPT !.cached = FALSE]

\* the io_deps dictionary of layer l holds in d1 what it held in d0
SameIoDeps(l, d1, d0) == l.io_deps # 0 => d1[l.io_deps] = d0[l.io_deps]

\* C1: output equivalence.  For every pass that returned a graph, every key
\* (layer, partition) of the graph it was given (the passes are not told
\* which keys are requested, so any of them may be) has the same value in
\* the returned graph as it had in the given graph.
C1_OutputEquivalence ==
    \A j \in Returned("columns") \cup Returned("chains") :
      LET r == hist[j] IN
      \A n \in DOMAIN r.in.layers :
        \A i \in 0..(LayerLen(r.heap0[r.in.layers[n]]) - 1) :
          EvalKey(r.heap1, r.dicts1, r.out, n, i)
            = EvalKey(r.heap0, r.dicts0, r.in, n, i)

\* the passes of optimize_columns whose evaluation of the tracer graph raised
EvaluationRaised ==
    {j \in Passes("columns") : hist[j].extra.evaluated /\ hist[j].extra.err # "none"}

\* C2: failure containment on evaluation.  When the evaluation of the tracer
\* graph raises, on-fail=warn gives exactly one warning made from the template
\* and the input graph back, on-fail=pass gives no warning and the input
\* graph back, on-fail=raise raises the same exception and returns no graph;
\* a returned graph has the input graph's layer objects and dependencies,
\* each layer with its attributes as given, and no mock layer.
C2_FailureContainment ==
    \A j \in EvaluationRaised :
      LET r == hist[j]
          x == r.extra
          original == /\ r.out = r.in
                      /\ r.raised = "none"
                      /\ \A n \in DOMAIN r.out.layers :
                           /\ ~r.heap1[r.out.layers[n]].tracer
                           /\ SameIoDeps(r.heap0[r.in.layers[n]], r.dicts1,
                                         r.dicts0)
                           /\ SameButCache(r.heap1[r.out.layers[n]],
                                           r.heap0[r.in.layers[n]])
      IN
      /\ x.on_fail = "warn" => x.warned = <<Warning(x.err)>> /\ original
      /\ x.on_fail = "pass" => x.warned = <<>> /\ original
      /\ x.on_fail = "raise" =>
           x.warned = <<>> /\ r.raised = x.err /\ r.out = NoGraph

\* an evaluation raised and the policy read was warn
C2_Witness ==
    \E j \in EvaluationRaised :
      /\ hist[j].extra.on_fail = "warn"
      /\ Len(hist[j].extra.warned) = 1
      /\ hist[j].out = hist[j].in

\* C3: projection failures never escape except under raise.  Every pass of
\* optimize_columns that raised had read the on-fail policy and found it to
\* be other than warn and pass ("unread": the exception left the function
\* without the policy being looked at, whatever its value).
C3_FailuresRecovered ==
    \A j \in Passes("columns") :
      hist[j].raised # "none" => hist[j].extra.on_fail \in {"raise", "bogus"}

\* C4: no-op safety.  When no layer of the given graph is both an input layer
\* and projectable, optimize_columns returns the given graph, leaves every
\* object as it was, mocks no layer, does not run the evaluator and does not
\* read the on-fail policy.
C4_NoOpSafety ==
    \A j \in Passes("columns") :
      LET r == hist[j] IN
      (~ \E n \in DOMAIN r.in.layers :
            /\ r.heap0[r.in.layers[n]].kind = "input"
            /\ r.heap0[r.in.layers[n]].is_projectable)
      => /\ r.raised = "none"
         /\ r.out = r.in
         /\ r.heap1 = r.heap0
         /\ r.dicts1 = r.dicts0
         /\ r.extra.mocked = {}
         /\ ~r.extra.evaluated
         /\ r.extra.on_fail = "unread"

\* optimize_columns ran on a graph whose only input layers are not projectable
C4_Witness ==
    \E j \in Passes("columns") :
      LET r == hist[j] IN
      /\ \E n \in DOMAIN r.in.layers : r.heap0[r.in.layers[n]].kind = "input"
      /\ \A n \in DOMAIN r.in.layers : ~r.heap0[r.in.layers[n]].is_projectable
      /\ r.out = r.in

\* the passes of optimize_columns whose tracer evaluation succeeded
Projected ==
    {j \in Returned("columns") :
        hist[j].extra.evaluated /\ hist[j].extra.err = "none"}

\* the projectable input layers of the graph pass r was given
ProjectableInputs(r) ==
    {n \in DOMAIN r.in.layers :
        /\ r.heap0[r.in.layers[n]].kind = "input"
        /\ r.heap0[r.in.layers[n]].is_projectable}

RECURSIVE Reads(_)
\* the (input layer, column) pairs a computed value was read from
Reads(v) ==
    IF v.op = "read" THEN {<<v.at, c>> : c \in v.cols}
    ELSE UNION {Reads(v.args[j]) : j \in DOMAIN v.args}

\* the columns of input layer n that partition 0 of layer t of the graph
\* pass r was given is computed from
ColumnsConsumed(r, t, n) ==
    LET reads == Reads(EvalKey(r.heap0, r.dicts0, r.in, t, 0)) IN
    {c \in AllColumns : <<n, c>> \in reads}

\* the columns of input layer n that partition 0 of the terminal layers of
\* the graph pass r was given is computed from
ColumnsNeeded(r, n) ==
    UNION {ColumnsConsumed(r, t, n) : t \in Terminals(r.in)}

\* the columns the input layer l reads
ColumnsRead(l) == UNION {l.dsk[k].cols : k \in {x \in DOMAIN l.dsk : l.dsk[x].func = "io_func"}}

\* pass r was given the docstring's graph: z = ds["foo"] - ds["baz"]["y"]
IsDocGraph(r) ==
    /\ DOMAIN r.in.layers = {"a", "b", "c", "d"}
    /\ r.in.deps = [a |-> {}, b |-> {"a"}, c |-> {"a"}, d |-> {"b", "c"}]
    /\ ProjectableInputs(r) = {"a"}
    /\ ColumnsRead(r.heap0[r.in.layers["a"]]) = AllColumns
    /\ r.heap0[r.in.layers["b"]].dsk["b"].func = "fld_foo"
    /\ r.heap0[r.in.layers["c"]].dsk["c"].func = "fld_bazy"
    /\ r.heap0[r.in.layers["d"]].dsk["d"].func = "ew"

\* C5: column minimality.  When the tracer evaluation succeeds, the state
\* handed to project() of each projectable input layer, and the columns the
\* projected layer reads, are exactly the columns that partition 0 of the
\* terminal layers is computed from; for the docstring's graph, which reads
\* foo and baz.y of an input with foo, bar, baz.x and baz.y, they are
\* exactly {foo, baz.y}.
C5_ColumnMinimality ==
    \A j \in Projected :
      LET r == hist[j] IN
      /\ \A n \in ProjectableInputs(r) :
           LET needed == ColumnsNeeded(r, n) IN
           /\ r.extra.state[n] = needed
           /\ ColumnsRead(r.heap1[r.out.layers[n]]) = needed
      /\ IsDocGraph(r) =>
           ColumnsRead(r.heap1[r.out.layers["a"]]) = {"foo", "baz.y"}

\* the docstring's graph was projected
C5_Witness ==
    \E j \in Projected :
      /\ IsDocGraph(hist[j])
      /\ hist[j].extra.state["a"] = {"foo", "baz.y"}

\* C6: inputs are never mutated.  After every pass, returned or raised,
\* every layer object of the graph it was given has the attributes it had
\* before, and its io_deps dictionary holds what it held before.
C6_InputsNotMutated ==
    \A j \in DOMAIN hist :
      LET r == hist[j] IN
      \A n \in DOMAIN r.in.layers :
        /\ r.heap1[r.in.layers[n]] = r.heap0[r.in.layers[n]]
        /\ SameIoDeps(r.heap0[r.in.layers[n]], r.dicts1, r.dicts0)

\* the functions that only the tracer graph calls
TracerFuncs == {"mock_io", "_touch_all_data", "_touch_and_call_fn"}

\* C7: shape of a successful projection.  The returned graph has the given
\* graph's layer names and dependencies; each projectable input layer is a
\* new object that is the original but for the columns it reads, which are
\* the recorded state; every other layer is the original object, as given;
\* nothing of the tracer graph is in the returned graph.
C7_ProjectionShape ==
    \A j \in Projected :
      LET r == hist[j] IN
      /\ DOMAIN r.out.layers = DOMAIN r.in.layers
      /\ r.out.deps = r.in.deps
      /\ \A n \in DOMAIN r.out.layers :
           LET new == r.heap1[r.out.layers[n]]
               old == r.heap0[r.in.layers[n]]
           IN
           /\ ~new.tracer
           /\ \A k \in DOMAIN new.dsk : new.dsk[k].func \notin TracerFuncs
           /\ SameIoDeps(old, r.dicts1, r.dicts0)
           /\ IF n \in ProjectableInputs(r)
              THEN /\ r.out.layers[n] \notin DOMAIN r.heap0
                   /\ ColumnsRead(new) = r.extra.state[n]
                   /\ DOMAIN new.dsk = DOMAIN old.dsk
                   /\ \A k \in DOMAIN new.dsk :
                        [new.dsk[k] EXCEPT !.cols = {}]
                          = [old.dsk[k] EXCEPT !.cols = {}]
                   /\ [new EXCEPT !.dsk = old.dsk, !.cached = FALSE]
                        = [old EXCEPT !.cached = FALSE]
              ELSE /\ r.out.layers[n] = r.in.layers[n]
                   /\ SameButCache(new, old)

\* a projection succeeded on a graph with a projectable input layer and a
\* layer that the tracer graph replaced by a mock
C7_Witness ==
    \E j \in Projected :
      /\ ProjectableInputs(hist[j]) # {}
      /\ hist[j].extra.mocked \ ProjectableInputs(hist[j]) # {}

\* the pairs of consecutive members of a chain
Links(chain) == {<<chain[i], chain[i + 1]>> : i \in 1..(Len(chain) - 1)}

\* C8: chain linearity.  In the graph a fusion pass was given, every two
\* consecutive members p, d of every chain it found satisfy: d is the only
\* dependent of p, p is the only dependency of d, both are blockwise layers
\* and both have the same number of partitions; a layer with two
\* dependents is the first or an inner member of no chain and is still a
\* layer of the returned graph.
C8_ChainLinearity ==
    \A j \in Passes("chains") :
      LET r == hist[j]
          g == r.in
          kind(n) == r.heap0[g.layers[n]].kind
          dependents(n) == {m \in DOMAIN g.deps : n \in g.deps[m]}
      IN
      /\ \A i \in DOMAIN r.extra : \A pd \in Links(r.extra[i]) :
           /\ dependents(pd[1]) = {pd[2]}
           /\ g.deps[pd[2]] = {pd[1]}
           /\ kind(pd[1]) \in {"input", "blockwise"}
           /\ kind(pd[2]) \in {"input", "blockwise"}
           /\ LayerLen(r.heap0[g.layers[pd[1]]])
                = LayerLen(r.heap0[g.layers[pd[2]]])
      /\ \A n \in DOMAIN g.layers :
           Cardinality(dependents(n)) >= 2 =>
             /\ \A i \in DOMAIN r.extra : \A pd \in Links(r.extra[i]) : pd[1] # n
             /\ r.raised = "none" => n \in DOMAIN r.out.layers

\* a fusion pass fused a chain in a graph that also has a fan-out
C8_Witness ==
    \E j \in Returned("chains") :
      /\ \E i \in DOMAIN hist[j].extra : Len(hist[j].extra[i]) >= 2
      /\ \E n \in DOMAIN hist[j].in.layers :
           Cardinality({m \in DOMAIN hist[j].in.deps : n \in hist[j].in.deps[m]}) >= 2

\* C9: idempotence of fusion.  A fusion pass that is given the graph
\* returned by a fusion pass finds no chain and returns the graph it was
\* given, every layer as it was.
C9_FusionIdempotent ==
    \A j \in Returned("chains") : \A k \in Passes("chains") :
      (j < k /\ hist[k].in = hist[j].out) =>
        /\ hist[k].raised = "none"
        /\ hist[k].extra = <<>>
        /\ hist[k].out = hist[k].in
        /\ \A n \in DOMAIN hist[k].in.layers :
             /\ hist[k].heap1[hist[k].out.layers[n]]
                  = hist[j].heap1[hist[j].out.layers[n]]
             /\ SameIoDeps(hist[k].heap1[hist[k].out.layers[n]],
                           hist[k].dicts1, hist[j].dicts1)

\* the slots of a layer that are partitioned
PartitionedSlots(l) == {l.indices[i].name : i \in {x \in DOMAIN l.indices : l.indices[x].part}}

\* C10: partition-count preservation.  For every chain a fusion pass fused,
\* the fused layer has as many partitions as the first and the last member
\* of the chain had in the given graph, and its numblocks has an entry for
\* exactly the partitioned slots of its indices, each equal to that count.
C10_PartitionCount ==
    \A j \in Returned("chains") :
      LET r == hist[j] IN
      \A i \in DOMAIN r.extra :
        LET chain == r.extra[i]
            F == r.heap1[r.out.layers[Last(chain)]]
            count == LayerLen(r.heap0[r.in.layers[chain[1]]])
        IN
        /\ LayerLen(F) = count
        /\ LayerLen(r.heap0[r.in.layers[Last(chain)]]) = count
        /\ {F.numblocks[x].name : x \in DOMAIN F.numblocks} = PartitionedSlots(F)
        /\ \A x \in DOMAIN F.numblocks : F.numblocks[x].nb = count

\* the layers annotated ak_output that no layer of the graph reads
OutputTerminals(r) ==
    {t \in Terminals(r.in) : r.heap0[r.in.layers[t]].ak_output}

\* C11: annotated-output touch.  After a successful projection of a graph
\* with a projectable input layer, for every layer annotated ak_output that
\* no other layer reads, every task of its layer in the tracer graph calls
\* _touch_all_data, and every column of a projectable input that the layer
\* is computed from is in the state recorded for that input.
C11_OutputTouch ==
    \A j \in Projected :
      LET r == hist[j] IN
      \A t \in OutputTerminals(r) :
        /\ \A k \in DOMAIN r.heap1[r.extra.pl[t]].dsk :
             r.heap1[r.extra.pl[t]].dsk[k].func = "_touch_all_data"
        /\ \A n \in ProjectableInputs(r) :
             ColumnsConsumed(r, t, n) \subseteq r.extra.state[n]

\* a projection succeeded on a graph whose only use of some column of a
\* projectable input is an annotated output layer that writes it
C11_Witness ==
    \E j \in Projected :
      LET r == hist[j] IN
      \E t \in OutputTerminals(r), n \in ProjectableInputs(r) :
        /\ \A k \in DOMAIN r.heap0[r.in.layers[t]].dsk :
             r.heap0[r.in.layers[t]].dsk[k].func = "sink"
        /\ ColumnsConsumed(r, t, n) # {}
        /\ \A u \in Terminals(r.in) \ {t} : ColumnsConsumed(r, u, n) = {}
        /\ r.extra.state[n] = ColumnsConsumed(r, t, n)

\* the passes whose tracer evaluation raised and that read a failure policy
\* that is none of warn, pass, raise
InvalidPolicy ==
    {j \in EvaluationRaised :
        hist[j].extra.on_fail \notin {"warn", "pass", "raise"}}

\* C12: invalid failure policy.  When the tracer evaluation raises and the
\* on-fail option read is none of warn, pass, raise, optimize_columns raises
\* a ValueError whose text names the value read and the valid values warn,
\* pass and raise; it returns no graph, issues no warning, and the exception
\* it raises is not the one the evaluation raised.
C12_InvalidPolicy ==
    \A j \in InvalidPolicy :
      LET r == hist[j] IN
      /\ r.raised = "ValueError"
      /\ r.raised # r.extra.err
      /\ r.out = NoGraph
      /\ r.extra.warned = <<>>
      /\ r.extra.message.bad = r.extra.on_fail
      /\ r.extra.message.valid = {"warn", "pass", "raise"}

\* the tracer evaluation raised and the policy read was not a valid one
C12_Witness ==
    \E j \in InvalidPolicy :
      /\ hist[j].extra.err # "none"
      /\ hist[j].extra.on_fail = "bogus"
      /\ hist[j].raised = "ValueError"

\* the passes run by the call of optimize that is under way or, when no call
\* is under way, by the last one
ThisCall(op) == {j \in Passes(op) : hist[j].call = calls}

\* the last call of optimize has ended, with a graph or an exception
CallEnded == pc = "idle" /\ calls > 0

\* the last call of optimize returned a graph
CallReturned ==
    /\ CallEnded
    /\ \A j \in ThisCall("columns") \cup ThisCall("chains") :
         hist[j].raised = "none"

ChainMembers(cs) == UNION {Range(cs[i]) : i \in DOMAIN cs}
ChainRemoved(cs) == UNION {Range(Front(cs[i])) : i \in DOMAIN cs}

\* C14: well-formed result of fusion.  The graph a fusion pass returns has
\* the layers of the given graph that are in no chain, each the object it
\* was and as it was, and for each chain one new layer under the name of the
\* chain's last member; the dependency map has exactly these names as keys,
\* the fused layer's entry is the given entry of the chain's first member,
\* every other entry is as given, the earlier members of the chains have no
\* entry, and no entry names one of them or any layer not in the graph.
C14_FusedGraphWellFormed ==
    \A j \in Returned("chains") :
      LET r == hist[j]
          cs == r.extra
          members == ChainMembers(cs)
          removed == ChainRemoved(cs)
      IN
      /\ DOMAIN r.out.layers = DOMAIN r.in.layers \ removed
      /\ DOMAIN r.out.deps = DOMAIN r.out.layers
      /\ \A n \in DOMAIN r.out.layers \ members :
           /\ r.out.layers[n] = r.in.layers[n]
           /\ r.heap1[r.out.layers[n]] = r.heap0[r.in.layers[n]]
           /\ r.out.deps[n] = r.in.deps[n]
      /\ \A i \in DOMAIN cs :
           LET chain == cs[i] IN
           /\ Len(chain) >= 2
           /\ Last(chain) \in DOMAIN r.out.layers
           /\ r.out.layers[Last(chain)] \notin DOMAIN r.heap0
           /\ r.heap1[r.out.layers[Last(chain)]].name = Last(chain)
           /\ r.out.deps[Last(chain)] = r.in.deps[chain[1]]
           /\ \A k \in DOMAIN cs :
                k # i => r.out.layers[Last(cs[k])] # r.out.layers[Last(chain)]
      /\ \A n \in DOMAIN r.out.deps :
           /\ r.out.deps[n] \cap removed = {}
           /\ r.out.deps[n] \subseteq DOMAIN r.out.layers

\* a fusion pass fused a chain whose first member reads a layer that stays
C14_Witness ==
    \E j \in Returned("chains") :
      LET r == hist[j] IN
      \E i \in DOMAIN r.extra :
        /\ r.in.deps[r.extra[i][1]] # {}
        /\ r.in.deps[Last(r.extra[i])] # r.in.deps[r.extra[i][1]]
        /\ r.out.deps[Last(r.extra[i])] = r.in.deps[r.extra[i][1]]
        /\ r.extra[i][1] \notin DOMAIN r.out.deps

RECURSIVE RewrittenAs(_, _, _, _, _, _)
\* args2 is args with every token, at any depth, rewritten by the one rule
\* that applies to its slot in layer's indices; a new token is numbered at
\* or after base and its slot in the fused indices F is the original one
RewrittenAs(args, args2, layer, parent, F, base) ==
    /\ Len(args2) = Len(args)
    /\ \A k \in DOMAIN args :
         LET a == args[k]
             b == args2[k]
         IN
         IF a.t = "tok"
         THEN LET slot == layer.indices[a.n + 1] IN
              IF ~slot.part THEN b = Str(slot.name)
              ELSE IF slot.name = parent THEN b = Str(parent)
              ELSE /\ b.t = "tok"
                   /\ b.n >= base
                   /\ b.n < Len(F)
                   /\ F[b.n + 1] = slot
         ELSE IF a.t \in {"list", "tuple"}
         THEN /\ b.t = a.t
              /\ RewrittenAs(a.items, b.items, layer, parent, F, base)
         ELSE b = a

RECURSIVE TokensOf(_)
\* the token numbers in args, at any depth
TokensOf(args) ==
    UNION {IF args[k].t = "tok" THEN {args[k].n}
           ELSE IF args[k].t \in {"list", "tuple"} THEN TokensOf(args[k].items)
           ELSE {} : k \in DOMAIN args}

RECURSIVE KeptTokens(_, _, _)
\* the number of tokens in args, at any depth, whose slot is partitioned and
\* does not name parent
KeptTokens(args, layer, parent) ==
    IF args = <<>> THEN 0
    ELSE LET a == Head(args) IN
         (IF a.t = "tok"
          THEN (IF layer.indices[a.n + 1].part
                   /\ layer.indices[a.n + 1].name # parent THEN 1 ELSE 0)
          ELSE IF a.t \in {"list", "tuple"}
          THEN KeptTokens(a.items, layer, parent)
          ELSE 0)
         + KeptTokens(Tail(args), layer, parent)

RECURSIVE KeptInChain(_, _, _)
\* the number of such tokens in members p..Len(chain) of a chain of pass r
KeptInChain(r, chain, p) ==
    IF p > Len(chain) THEN 0
    ELSE LET layer == r.heap0[r.in.layers[chain[p]]] IN
         KeptTokens(layer.dsk[chain[p]].args, layer, chain[p - 1])
         + KeptInChain(r, chain, p + 1)

\* C15: reference rewriting integrity.  For every chain a fusion pass fused,
\* the indices of the fused layer start with the slots of the first member,
\* in order, names and partitioned status as given, and the first member's
\* tasks are in the fused template as given; the task of each later member
\* is in the template with the same function and with every token, at any
\* depth, rewritten by one rule: the literal name of a non-partitioned slot,
\* the name of the preceding member for a slot that names it, and otherwise
\* a token for a slot appended after the first member's that equals the
\* original slot; each such token has a slot of its own, no slot is appended
\* for anything else, every token of the template is smaller than the
\* length of the fused indices, and the other arguments are as given.
C15_ReferenceRewriting ==
    \A j \in Returned("chains") :
      LET r == hist[j] IN
      \A i \in DOMAIN r.extra :
        LET chain == r.extra[i]
            F == r.heap1[r.out.layers[Last(chain)]]
            c0 == r.heap0[r.in.layers[chain[1]]]
            base == Len(c0.indices)
            later == {chain[p] : p \in 2..Len(chain)}
            newtoks == UNION {TokensOf(F.dsk[m].args) : m \in later}
        IN
        /\ Len(F.indices) >= base
        /\ SubSeq(F.indices, 1, base) = c0.indices
        /\ \A k \in DOMAIN c0.dsk : k \in DOMAIN F.dsk /\ F.dsk[k] = c0.dsk[k]
        /\ \A p \in 2..Len(chain) :
             LET layer == r.heap0[r.in.layers[chain[p]]]
                 old == layer.dsk[chain[p]]
             IN
             /\ chain[p] \in DOMAIN F.dsk
             /\ F.dsk[chain[p]].func = old.func
             /\ F.dsk[chain[p]].fid = old.fid
             /\ RewrittenAs(old.args, F.dsk[chain[p]].args, layer,
                            chain[p - 1], F.indices, base)
        /\ Len(F.indices) = base + KeptInChain(r, chain, 2)
        /\ newtoks = base..(Len(F.indices) - 1)
        /\ \A k \in DOMAIN F.dsk :
             \A n \in TokensOf(F.dsk[k].args) : n < Len(F.indices)

\* a fusion pass fused a chain in which a later member has a token nested in
\* a list in a tuple for a slot of its own, a token for a non-partitioned
\* slot and a token for the preceding member
C15_Witness ==
    \E j \in Returned("chains") :
      LET r == hist[j] IN
      \E i \in DOMAIN r.extra :
        LET chain == r.extra[i]
            F == r.heap1[r.out.layers[Last(chain)]]
        IN
        \E p \in 2..Len(chain) :
          LET a == F.dsk[chain[p]].args IN
          /\ Len(a) >= 2
          /\ a[1] = Str(chain[p - 1])
          /\ a[2].t = "list"
          /\ a[2].items[1].t = "str"
          /\ a[2].items[2].t = "tuple"
          /\ a[2].items[2].items[1].t = "tok"
          /\ a[2].items[2].items[1].n >= Len(r.heap0[r.in.layers[chain[1]]].indices)

\* C16: single-template invariant.  In every graph that optimize is given or
\* returns, from a first call on an input graph or from a call on the graph
\* a previous call returned, the dsk of every blockwise layer has exactly
\* one task; and no pass of optimize_columns fails the assertion
\* len(layer.dsk) == 1 of _mock_output or _touch_and_call.
C16_SingleTemplate ==
    /\ \A n \in DOMAIN graph.layers :
         IsBlockwise(heap[graph.layers[n]]) =>
           Cardinality(DOMAIN heap[graph.layers[n]].dsk) = 1
    /\ \A j \in Passes("columns") : hist[j].raised # "AssertionError"

\* C17: fusion has no failure path.  Every pass of rewrite_layer_chains
\* returns a graph and raises nothing, also when the first member of a chain
\* has no partitioned input slot and so an empty numblocks.
C17_FusionNeverRaises ==
    \A j \in Passes("chains") :
      /\ hist[j].raised = "none"
      /\ hist[j].out # NoGraph

\* chain discovery is under way or over, and its variables are live
Discovering == pc \in {"discover", "rewrite"}

\* the layers discovery has passed through alone so far
PassedThrough == DOMAIN layers \ {Last(chains[i]) : i \in DOMAIN chains}

\* the places (chain, position) at which layer n is listed in the chains
PlacesInChains(n) ==
    {<<i, p>> \in (DOMAIN chains) \X (1..Cardinality(DOMAIN dsk.layers)) :
        p <= Len(chains[i]) /\ chains[i][p] = n}

\* at every point of chain discovery the work set and the layers dealt with
\* partition the layers of the graph, a layer dealt with is either passed
\* through alone or listed once in one chain, chains have two members or
\* more, each member the only dependency of the next, and `layers` holds
\* the layers passed through and the last members of the chains
DiscoveryInvariant ==
    Discovering =>
      /\ all_layers \cup PassedThrough \cup ChainMembers(chains)
           = DOMAIN dsk.layers
      /\ all_layers \cap (PassedThrough \cup ChainMembers(chains)) = {}
      /\ PassedThrough \cap ChainMembers(chains) = {}
      /\ \A n \in ChainMembers(chains) : Cardinality(PlacesInChains(n)) = 1
      /\ \A n \in PassedThrough : layers[n] = dsk.layers[n]
      /\ \A i \in DOMAIN chains :
           /\ Len(chains[i]) >= 2
           /\ Last(chains[i]) \in DOMAIN layers
           /\ \A pd \in Links(chains[i]) : dsk.deps[pd[2]] = {pd[1]}
      /\ pc = "rewrite" => all_layers = {}

\* C18: chain discovery visits every layer once and terminates.  Every
\* iteration of the discovery loop takes at least one layer out of the work
\* set and puts none in, so the loop ends, and it ends with the work set
\* empty; no layer is removed from the work set twice (all_layers.remove
\* never raises KeyError); and every layer ends up either passed through
\* alone or a member of exactly one chain, at one place, each chain listed
\* in dependency order.
C18_DiscoveryVisitsOnce ==
    /\ [](DiscoveryInvariant
          /\ \A j \in Passes("chains") : hist[j].raised # "KeyError")
    /\ [][(pc = "discover" /\ pc' = "discover") =>
            (all_layers' \subseteq all_layers /\ all_layers' # all_layers)]_vars
    /\ [][(pc = "discover" /\ pc' = "rewrite") => all_layers = {}]_vars

\* discovery is over on a graph with two chains
C18_Witness ==
    /\ pc = "rewrite"
    /\ all_layers = {}
    /\ Len(chains) = 2
    /\ ChainMembers(chains) = DOMAIN dsk.layers

\* in the graph pass r was given, y is the only dependent of x, x the only
\* dependency of y, both are blockwise and they have as many partitions
Linked(r, x, y) ==
    /\ {m \in DOMAIN r.in.deps : x \in r.in.deps[m]} = {y}
    /\ r.in.deps[y] = {x}
    /\ IsBlockwise(r.heap0[r.in.layers[x]])
    /\ IsBlockwise(r.heap0[r.in.layers[y]])
    /\ LayerLen(r.heap0[r.in.layers[x]]) = LayerLen(r.heap0[r.in.layers[y]])

RECURSIVE Follow(_, _)
\* s extended along the links for as long as there is one
Follow(r, s) ==
    LET next == {y \in DOMAIN r.in.layers : Linked(r, Last(s), y)} IN
    IF next = {} \/ Len(s) >= Cardinality(DOMAIN r.in.layers) THEN s
    ELSE Follow(r, Append(s, TheOne(next)))

\* the chains of the graph pass r was given, by the graph alone: the
\* maximal paths of two layers or more along the links
MaximalChains(r) ==
    {s \in {Follow(r, <<x>>) :
              x \in {n \in DOMAIN r.in.layers :
                       \A z \in DOMAIN r.in.layers : ~Linked(r, z, n)}} :
        Len(s) >= 2}

\* the layer that the rewrite of chain s alone makes of the graph pass r was
\* given, and the dictionaries after it
FusedAlone(r, s) ==
    FuseChain(r.heap0, r.dicts0, r.in, s, r.heap0[r.in.layers[Last(s)]])

\* C19: order independence of fusion.  Whatever the order in which layers
\* are taken from the work set, a fusion pass raises or returns by the
\* given graph alone, and what it returns is determined by the given graph:
\* the set of chains is the set of maximal linked paths, the layers are
\* those in no chain, as given, and one fused layer per chain, the
\* dependency map is the given one with each chain contracted, and each
\* fused layer's template, indices, numblocks and io_deps are those that
\* rewriting its chain alone on the given graph yields.
C19_OrderIndependence ==
    \A j \in Passes("chains") :
      LET r == hist[j]
          mc == MaximalChains(r)
          removed == UNION {Range(Front(s)) : s \in mc}
          last == {Last(s) : s \in mc}
          chainOf(n) == CHOOSE s \in mc : Last(s) = n
      IN
      /\ r.raised \in {"none", "IndexError"}
      /\ r.raised = "none" <=>
           \A s \in mc :
             SharedNumblocks(r.heap0[r.in.layers[s[1]]]) # <<>>
      /\ r.raised = "none" =>
           /\ Range(r.extra) = mc
           /\ Len(r.extra) = Cardinality(mc)
           /\ DOMAIN r.out.layers = DOMAIN r.in.layers \ removed
           /\ r.out.deps =
                [n \in DOMAIN r.in.layers \ removed |->
                    IF n \in last THEN r.in.deps[chainOf(n)[1]]
                    ELSE r.in.deps[n]]
           /\ \A n \in DOMAIN r.out.layers \ last :
                r.heap1[r.out.layers[n]] = r.heap0[r.in.layers[n]]
           /\ \A s \in mc :
                LET F == r.heap1[r.out.layers[Last(s)]]
                    alone == FusedAlone(r, s)
                IN
                /\ F = alone.layer
                /\ F.io_deps # 0 =>
                     r.dicts1[F.io_deps] = alone.dicts[F.io_deps]

\* a fusion pass returned on a graph with two chains, having found the
\* chain of the later layers first
C19_Witness ==
    \E j \in Returned("chains") :
      /\ Len(hist[j].extra) = 2
      /\ hist[j].extra[1] = <<"c", "d">>
      /\ hist[j].extra[2] = <<"a", "b">>

=============================================================================
